---- MODULE Spec2Model ----
(***************************************************************************)
(* A model of tetris.py: the grid (World), the pieces (Tetrimino), the     *)
(* piece supply (TetriminoFactory), the game state (GameState), the input  *)
(* interpreter (handle_player_input) and the frame loop of main().         *)
(***************************************************************************)
EXTENDS Integers, Sequences, FiniteSets, TLC

VARIABLES
    game_state,       \* main(): the GameState object
    end_cycle_early,  \* main(): the frame's fast-forward flag
    raised,           \* the uncaught exception that ended the program, or "none"
    frame_hard_drop,  \* history: a K_SPACE event was handled in the current frame
    spawns,           \* history: pieces spawned (by a lock or a reset) since Init
    ticks,            \* history, SpecTicks: update_state calls on a running game since Init
    input,            \* SpecClean: the World clean_full_lines is called on
    output            \* SpecClean: the call's outcome, once it is done

vars == <<game_state, end_cycle_early, raised, frame_hard_drop, spawns, ticks, input, output>>

(***************************************************************************)
(* Bounds of the model.                                                    *)
(***************************************************************************)
\* The game is followed until MaxSpawns pieces were spawned after Init.
MaxSpawns == 1

\* SpecClean calls clean_full_lines on the worlds of up to this size.
MaxCleanWidth == 2

MaxCleanHeight == 4

(***************************************************************************)
(* Position                                                                *)
(***************************************************************************)
Position(x, y) == [x |-> x, y |-> y]

translate(self, offset) == Position(self.x + offset.x, self.y + offset.y)

rot_left(self) == Position(0 - self.y, self.x)

\* Fault variant of rot_right: the sign is lost, (x, y) goes to (y, x).
rot_right_unsigned(self) == Position(self.y, self.x)

rot_right(self) == Position(self.y, 0 - self.x)

(***************************************************************************)
(* Cell and World                                                          *)
(***************************************************************************)
Cell(color, solid) == [color |-> color, solid |-> solid]

BACKGROUND_CELL == Cell("Color(0, 0, 0)", FALSE)

DEFAULT_WIDTH == 10

DEFAULT_HEIGHT == 20

range(n) == 0 .. (n - 1)

\* Lines 44-50: World.__init__.
new_world(width, height) ==
    [grid   |-> [pos \in {Position(x, y) : x \in range(width), y \in range(height)}
                    |-> BACKGROUND_CELL],
     width  |-> width,
     height |-> height]

\* World(), the default arguments of line 44.
default_world == new_world(DEFAULT_WIDTH, DEFAULT_HEIGHT)

\* World(width, height); the default world is built once and reused.
World(width, height) ==
    IF width = DEFAULT_WIDTH /\ height = DEFAULT_HEIGHT
        THEN default_world
        ELSE new_world(width, height)

\* Fault variant of pos_is_free: the positions above the grid count as free.
pos_is_free_above_grid(self, pos) ==
    IF pos \in DOMAIN self.grid
        THEN ~ self.grid[pos].solid
        ELSE pos.y < 0 /\ pos.x \in range(self.width)

pos_is_free(self, pos) ==
    IF pos \in DOMAIN self.grid
        THEN ~ self.grid[pos].solid
        ELSE FALSE

\* Python's d[key] = value: the key is added when the dict does not hold it.
dict_set(grid, key, value) ==
    IF key \in DOMAIN grid
        THEN [grid EXCEPT ![key] = value]
        ELSE [pos \in (DOMAIN grid) \cup {key} |-> IF pos = key THEN value ELSE grid[pos]]

\* Fault variant of stamp_from: the test of pos_is_free is left out.
RECURSIVE stamp_from_untested(_, _, _, _)
stamp_from_untested(self, color, positions, i) ==
    IF i > Len(positions)
        THEN self
        ELSE stamp_from_untested([self EXCEPT !.grid = dict_set(@, positions[i], Cell(color, TRUE))],
                                 color, positions, i + 1)

RECURSIVE stamp_from(_, _, _, _)
stamp_from(self, color, positions, i) ==
    IF i > Len(positions)
        THEN self
        ELSE IF pos_is_free(self, positions[i])
            THEN stamp_from([self EXCEPT !.grid = dict_set(@, positions[i], Cell(color, TRUE))],
                            color, positions, i + 1)
            ELSE stamp_from(self, color, positions, i + 1)

stamp(self, color, positions) == stamp_from(self, color, positions, 1)

\* Lines 68-72: the row scan of clean_full_lines.
row_full(self, y) == \A x \in range(self.width) : self.grid[Position(x, y)].solid

\* Fault variant of shift_row: the test of ty == 0 is left out and the top row
\* is not written.
shift_row_keeping_top(grid, width, ty) ==
    LET row == {Position(x, ty) : x \in range(width)}
    IN  [pos \in DOMAIN grid |->
            IF pos \in row /\ ty # 0
                THEN grid[Position(pos.x, ty - 1)]
                ELSE grid[pos]]

\* Lines 77-81: one pass of the inner x loop, for row ty. Every cell of the
\* row reads row ty-1 only, which the pass does not write.
shift_row(grid, width, ty) ==
    LET row  == {Position(x, ty) : x \in range(width)}
        keys == IF row \subseteq DOMAIN grid THEN DOMAIN grid ELSE (DOMAIN grid) \cup row
    IN  [pos \in keys |->
            IF pos \in row
                THEN IF ty = 0 THEN BACKGROUND_CELL ELSE grid[Position(pos.x, ty - 1)]
                ELSE grid[pos]]

\* Lines 75-81: for ty in range(y, -1, -1).
RECURSIVE collapse_from(_, _, _)
collapse_from(grid, width, ty) ==
    IF ty < 0
        THEN grid
        ELSE collapse_from(shift_row(grid, width, ty), width, ty - 1)

\* Fault variant of clean_scan: the scan moves one row up after a clear too and
\* so never looks at the row that sank into the place of the cleared one.
RECURSIVE clean_scan_moving_on(_, _, _)
clean_scan_moving_on(self, y, line_count) ==
    IF y < 0
        THEN [world |-> self, line_count |-> line_count]
        ELSE IF row_full(self, y)
            THEN clean_scan_moving_on([self EXCEPT !.grid = collapse_from(@, self.width, y)],
                                      y - 1, line_count + 1)
            ELSE clean_scan_moving_on(self, y - 1, line_count)

\* Lines 67-83: the while loop, from row y with line_count lines so far.
RECURSIVE clean_scan(_, _, _)
clean_scan(self, y, line_count) ==
    IF y < 0
        THEN [world |-> self, line_count |-> line_count]
        ELSE IF row_full(self, y)
            THEN clean_scan([self EXCEPT !.grid = collapse_from(@, self.width, y)],
                            y, line_count + 1)
            ELSE clean_scan(self, y - 1, line_count)

\* Fault variant of clean_full_lines: the scan starts one row above the bottom.
clean_full_lines_above_bottom(self) == clean_scan(self, self.height - 2, 0)

\* The world after the call and the count returned.
clean_full_lines(self) == clean_scan(self, self.height - 1, 0)

(***************************************************************************)
(* Tetrimino                                                               *)
(***************************************************************************)
MOVE_OFFSETS ==
    [k \in {"LEFT", "RIGHT", "DOWN"} |->
        CASE k = "LEFT"  -> Position(-1, 0)
          [] k = "RIGHT" -> Position(1, 0)
          [] k = "DOWN"  -> Position(0, 1)]

Tetrimino(center_pos, block_offsets, color, rotation_strategy) ==
    [center_pos        |-> center_pos,
     block_offsets     |-> block_offsets,
     color             |-> color,
     rotation_strategy |-> rotation_strategy]

blocks(self) ==
    [i \in DOMAIN self.block_offsets |-> translate(self.center_pos, self.block_offsets[i])]

is_legal_in(self, world) ==
    \A i \in DOMAIN self.block_offsets : pos_is_free(world, blocks(self)[i])

move_offset(self, offset) ==
    Tetrimino(translate(self.center_pos, offset), self.block_offsets, self.color,
              self.rotation_strategy)

rotate_left(self) ==
    IF self.rotation_strategy = "NO_ROTATION"
        THEN self
        ELSE Tetrimino(self.center_pos,
                       [i \in DOMAIN self.block_offsets |-> rot_left(self.block_offsets[i])],
                       self.color, self.rotation_strategy)

rotate_right(self) ==
    IF self.rotation_strategy = "NO_ROTATION"
        THEN self
        ELSE Tetrimino(self.center_pos,
                       [i \in DOMAIN self.block_offsets |-> rot_right(self.block_offsets[i])],
                       self.color, self.rotation_strategy)

o_piece ==
    Tetrimino(Position(4, 2), <<Position(0, 0), Position(0, 1), Position(1, 0), Position(1, 1)>>,
              "Color(255, 213, 0)", "NO_ROTATION")

l_piece ==
    Tetrimino(Position(4, 2), <<Position(0, 0), Position(-1, 0), Position(1, 0), Position(1, 1)>>,
              "Color(114, 203, 59)", "THREE_BY_THREE")

rl_piece ==
    Tetrimino(Position(4, 2), <<Position(0, 0), Position(-1, 0), Position(1, 0), Position(-1, 1)>>,
              "Color(255, 151, 28)", "THREE_BY_THREE")

i_piece ==
    Tetrimino(Position(4, 2), <<Position(0, 0), Position(-1, 0), Position(1, 0), Position(2, 0)>>,
              "Color(3, 65, 174)", "THREE_BY_THREE")

t_piece ==
    Tetrimino(Position(4, 2), <<Position(0, 0), Position(-1, 0), Position(1, 0), Position(0, 1)>>,
              "Color(145, 79, 166)", "THREE_BY_THREE")

s_piece ==
    Tetrimino(Position(4, 2), <<Position(0, 0), Position(-1, 0), Position(0, 1), Position(1, 1)>>,
              "Color(255, 193, 124)", "THREE_BY_THREE")

z_piece ==
    Tetrimino(Position(4, 2), <<Position(0, 0), Position(1, 0), Position(0, 1), Position(-1, 1)>>,
              "Color(255, 50, 19)", "THREE_BY_THREE")

(***************************************************************************)
(* TetriminoFactory.  random.choice is an input: every operation that      *)
(* draws takes the piece drawn as a parameter.                             *)
(***************************************************************************)
\* The outcomes of TetriminoFactory._choose().
choose == {o_piece, l_piece, rl_piece, i_piece, t_piece, s_piece, z_piece}

TetriminoFactory(next_tetrimino) == [next_tetrimino |-> next_tetrimino]

\* Fault variant of pop_next_tetrimino: output is read after the refill.
pop_next_tetrimino_after_refill(self, drawn) ==
    [output |-> drawn, factory |-> [self EXCEPT !.next_tetrimino = drawn]]

pop_next_tetrimino(self, drawn) ==
    [output |-> self.next_tetrimino, factory |-> [self EXCEPT !.next_tetrimino = drawn]]

factory_reset(self, drawn) == [self EXCEPT !.next_tetrimino = drawn]

(***************************************************************************)
(* GameState                                                               *)
(***************************************************************************)
GameState(world, score, tetrimino, running, level, lines_cleared, t_factory) ==
    [world         |-> world,
     score         |-> score,
     tetrimino     |-> tetrimino,
     running       |-> running,
     level         |-> level,
     lines_cleared |-> lines_cleared,
     t_factory     |-> t_factory]

create(drawn1, drawn2) ==
    LET popped == pop_next_tetrimino(TetriminoFactory(drawn1), drawn2)
    IN  GameState(World(DEFAULT_WIDTH, DEFAULT_HEIGHT), 0, popped.output, TRUE, 1, 0,
                  popped.factory)

\* Fault variant of reset: the level is not set back.
reset_keeping_level(self, drawn1, drawn2) ==
    LET popped == pop_next_tetrimino(factory_reset(self.t_factory, drawn1), drawn2)
    IN  [self EXCEPT !.world         = World(self.world.width, self.world.height),
                     !.score         = 0,
                     !.running       = TRUE,
                     !.lines_cleared = 0,
                     !.t_factory     = popped.factory,
                     !.tetrimino     = popped.output]

reset(self, drawn1, drawn2) ==
    LET popped == pop_next_tetrimino(factory_reset(self.t_factory, drawn1), drawn2)
    IN  [self EXCEPT !.world         = World(self.world.width, self.world.height),
                     !.score         = 0,
                     !.running       = TRUE,
                     !.level         = 1,
                     !.lines_cleared = 0,
                     !.t_factory     = popped.factory,
                     !.tetrimino     = popped.output]

\* Fault variant of score_assertion: the upper limit is strict, four lines fail.
score_assertion_strict(cleared_lines) == 0 <= cleared_lines /\ cleared_lines < 4

\* Line 256: the assertion of calculate_score_increase.
score_assertion(cleared_lines) == 0 <= cleared_lines /\ cleared_lines <= 4

\* Fault variant of calculate_score_increase: 100 points a line.
calculate_score_increase_linear(cleared_lines) == 100 * cleared_lines

calculate_score_increase(cleared_lines) ==
    IF cleared_lines = 1 THEN 100
    ELSE IF cleared_lines = 2 THEN 200
    ELSE IF cleared_lines = 3 THEN 400
    ELSE IF cleared_lines = 4 THEN 800
    ELSE 0

\* Fault variant of count_cleared_lines: the level is computed before the
\* lines are added.
count_cleared_lines_stale_level(self, lines) ==
    [self EXCEPT !.lines_cleared = self.lines_cleared + lines,
                 !.level         = 1 + (self.lines_cleared \div 10)]

\* Lines 236-237, the part of _add_cleared_lines before the call that may raise.
count_cleared_lines(self, lines) ==
    [self EXCEPT !.lines_cleared = self.lines_cleared + lines,
                 !.level         = 1 + ((self.lines_cleared + lines) \div 10)]

add_cleared_lines(self, lines) ==
    LET counted == count_cleared_lines(self, lines)
    IN  [counted EXCEPT !.score = counted.score + calculate_score_increase(lines)]

\* Lines 229-230: the stamp and the line clear of the lock branch.
stamp_and_clean(self) ==
    clean_full_lines(stamp(self.world, self.tetrimino.color, blocks(self.tetrimino)))

\* update_state takes the lock branch.
locks_piece(self) ==
    self.running /\ ~ is_legal_in(move_offset(self.tetrimino, MOVE_OFFSETS["DOWN"]), self.world)

\* update_state ends in the AssertionError of line 256.
update_state_raises(self) ==
    locks_piece(self) /\ ~ score_assertion(stamp_and_clean(self).line_count)

\* Fault variant of update_state: the piece falls two rows when the row below
\* it is free.
update_state_falling_twice(self, drawn) ==
    IF self.running
        THEN LET new_tetrimino == move_offset(self.tetrimino, MOVE_OFFSETS["DOWN"])
             IN  IF is_legal_in(new_tetrimino, self.world)
                     THEN [self EXCEPT !.tetrimino = move_offset(new_tetrimino, MOVE_OFFSETS["DOWN"])]
                     ELSE LET cleaned == stamp_and_clean(self)
                              stamped == [self EXCEPT !.world = cleaned.world]
                          IN  IF ~ score_assertion(cleaned.line_count)
                                  THEN count_cleared_lines(stamped, cleaned.line_count)
                                  ELSE LET added   == add_cleared_lines(stamped, cleaned.line_count)
                                           popped  == pop_next_tetrimino(added.t_factory, drawn)
                                           spawned == [added EXCEPT !.tetrimino = popped.output,
                                                                    !.t_factory = popped.factory]
                                       IN  IF ~ is_legal_in(spawned.tetrimino, spawned.world)
                                               THEN [spawned EXCEPT !.running = FALSE]
                                               ELSE spawned
        ELSE self

\* Fault variant of update_state: running is not set to False when the new
\* piece is not legal.
update_state_without_game_over(self, drawn) ==
    IF self.running
        THEN LET new_tetrimino == move_offset(self.tetrimino, MOVE_OFFSETS["DOWN"])
             IN  IF is_legal_in(new_tetrimino, self.world)
                     THEN [self EXCEPT !.tetrimino = new_tetrimino]
                     ELSE LET cleaned == stamp_and_clean(self)
                              stamped == [self EXCEPT !.world = cleaned.world]
                          IN  IF ~ score_assertion(cleaned.line_count)
                                  THEN count_cleared_lines(stamped, cleaned.line_count)
                                  ELSE LET added   == add_cleared_lines(stamped, cleaned.line_count)
                                           popped  == pop_next_tetrimino(added.t_factory, drawn)
                                       IN  [added EXCEPT !.tetrimino = popped.output,
                                                         !.t_factory = popped.factory]
        ELSE self

\* Fault variant of update_state: the branch of the piece that cannot fall is
\* left out, the piece stays where it is.
update_state_without_lock(self, drawn) ==
    IF self.running
        THEN LET new_tetrimino == move_offset(self.tetrimino, MOVE_OFFSETS["DOWN"])
             IN  IF is_legal_in(new_tetrimino, self.world)
                     THEN [self EXCEPT !.tetrimino = new_tetrimino]
                     ELSE self
        ELSE self

\* Fault variant of update_state: the test of running is left out.
update_state_not_testing_running(self, drawn) ==
    LET new_tetrimino == move_offset(self.tetrimino, MOVE_OFFSETS["DOWN"])
    IN  IF is_legal_in(new_tetrimino, self.world)
            THEN [self EXCEPT !.tetrimino = new_tetrimino]
            ELSE LET cleaned == stamp_and_clean(self)
                     stamped == [self EXCEPT !.world = cleaned.world]
                 IN  IF ~ score_assertion(cleaned.line_count)
                         THEN count_cleared_lines(stamped, cleaned.line_count)
                         ELSE LET added   == add_cleared_lines(stamped, cleaned.line_count)
                                  popped  == pop_next_tetrimino(added.t_factory, drawn)
                                  spawned == [added EXCEPT !.tetrimino = popped.output,
                                                           !.t_factory = popped.factory]
                              IN  IF ~ is_legal_in(spawned.tetrimino, spawned.world)
                                      THEN [spawned EXCEPT !.running = FALSE]
                                      ELSE spawned

\* The game state update_state leaves behind; when it raises, the state at line 256.
update_state(self, drawn) ==
    IF self.running
        THEN LET new_tetrimino == move_offset(self.tetrimino, MOVE_OFFSETS["DOWN"])
             IN  IF is_legal_in(new_tetrimino, self.world)
                     THEN [self EXCEPT !.tetrimino = new_tetrimino]
                     ELSE LET cleaned == stamp_and_clean(self)
                              stamped == [self EXCEPT !.world = cleaned.world]
                          IN  IF ~ score_assertion(cleaned.line_count)
                                  THEN count_cleared_lines(stamped, cleaned.line_count)
                                  ELSE LET added   == add_cleared_lines(stamped, cleaned.line_count)
                                           popped  == pop_next_tetrimino(added.t_factory, drawn)
                                           spawned == [added EXCEPT !.tetrimino = popped.output,
                                                                    !.t_factory = popped.factory]
                                       IN  IF ~ is_legal_in(spawned.tetrimino, spawned.world)
                                               THEN [spawned EXCEPT !.running = FALSE]
                                               ELSE spawned
        ELSE self

(***************************************************************************)
(* handle_player_input                                                     *)
(***************************************************************************)
Keys == {"K_LEFT", "K_RIGHT", "K_SPACE", "K_UP", "K_DOWN", "K_r", "K_s"}

\* Fault variant of hard_drop: if in place of while, the piece drops one row.
hard_drop_one_row(new_tetrimino, world) ==
    IF is_legal_in(move_offset(new_tetrimino, MOVE_OFFSETS["DOWN"]), world)
        THEN move_offset(new_tetrimino, MOVE_OFFSETS["DOWN"])
        ELSE new_tetrimino

\* Lines 278-279: the hard-drop loop.
RECURSIVE hard_drop(_, _)
hard_drop(new_tetrimino, world) ==
    IF is_legal_in(move_offset(new_tetrimino, MOVE_OFFSETS["DOWN"]), world)
        THEN hard_drop(move_offset(new_tetrimino, MOVE_OFFSETS["DOWN"]), world)
        ELSE new_tetrimino

\* The keys that propose a piece (lines 272-284).
ProposalKeys == {"K_LEFT", "K_RIGHT", "K_SPACE", "K_UP", "K_DOWN"}

\* Lines 272-284: new_tetrimino, for a key of ProposalKeys.
proposal(game_state_, key) ==
    CASE key = "K_LEFT"  -> move_offset(game_state_.tetrimino, MOVE_OFFSETS["LEFT"])
      [] key = "K_RIGHT" -> move_offset(game_state_.tetrimino, MOVE_OFFSETS["RIGHT"])
      [] key = "K_SPACE" -> hard_drop(game_state_.tetrimino, game_state_.world)
      [] key = "K_UP"    -> rotate_right(game_state_.tetrimino)
      [] key = "K_DOWN"  -> move_offset(game_state_.tetrimino, MOVE_OFFSETS["DOWN"])

\* Variant of handle_player_input: a proposal is taken only while the game
\* is running.
handle_player_input_while_running(game_state_, key, drawn1, drawn2) ==
    [game_state |->
        IF key \in ProposalKeys
            THEN LET new_tetrimino == proposal(game_state_, key)
                 IN  IF game_state_.running /\ is_legal_in(new_tetrimino, game_state_.world)
                         THEN [game_state_ EXCEPT !.tetrimino = new_tetrimino]
                         ELSE game_state_
            ELSE IF key = "K_r"
                     THEN reset(game_state_, drawn1, drawn2)
                     ELSE game_state_,
     end_cycle_early |-> (key = "K_SPACE")]

\* Fault variant of handle_player_input: the proposal is taken without the
\* test of is_legal_in.
handle_player_input_ungated(game_state_, key, drawn1, drawn2) ==
    [game_state |->
        IF key \in ProposalKeys
            THEN [game_state_ EXCEPT !.tetrimino = proposal(game_state_, key)]
            ELSE IF key = "K_r"
                     THEN reset(game_state_, drawn1, drawn2)
                     ELSE game_state_,
     end_cycle_early |-> (key = "K_SPACE")]

\* The game state after the call and the flag returned.  For the other keys
\* new_tetrimino stays None; K_s only toggles the music of pygame.mixer, which
\* is no part of the game state.
handle_player_input(game_state_, key, drawn1, drawn2) ==
    [game_state |->
        IF key \in ProposalKeys
            THEN LET new_tetrimino == proposal(game_state_, key)
                 IN  IF is_legal_in(new_tetrimino, game_state_.world)
                         THEN [game_state_ EXCEPT !.tetrimino = new_tetrimino]
                         ELSE game_state_
            ELSE IF key = "K_r"
                     THEN reset(game_state_, drawn1, drawn2)
                     ELSE game_state_,
     end_cycle_early |-> (key = "K_SPACE")]

(***************************************************************************)
(* Games played from GameState.create(): the initial states of the model   *)
(* are states main() reaches.  A game is a list of placements; each is one *)
(* frame of main(): the piece drawn, the keys of the frame's event list,   *)
(* the last of them K_SPACE, and the update_state call the flag forces.    *)
(***************************************************************************)
\* The keys of a frame that turns the piece, shifts it and drops it.
drop_keys(rotations, shift) ==
    [i \in 1 .. rotations |-> "K_UP"]
        \o [i \in 1 .. (IF shift < 0 THEN 0 - shift ELSE shift) |->
                IF shift < 0 THEN "K_LEFT" ELSE "K_RIGHT"]
        \o <<"K_SPACE">>

placement(piece, rotations, shift) == [piece |-> piece, keys |-> drop_keys(rotations, shift)]

\* An upright I piece dropped in column x.
upright_i(x) == placement(i_piece, 1, x - 4)

\* Ten upright I pieces side by side: four full rows, cleared by the last.
four_lines == [i \in 1 .. 10 |-> upright_i(i - 1)]

\* Column x filled by n upright I pieces.
column(x, n) == [i \in 1 .. n |-> upright_i(x)]

\* Columns 0-2 and 7-9 filled to the top, the outer columns first.
side_walls ==
    column(0, 5) \o column(1, 5) \o column(2, 5) \o column(9, 5) \o column(8, 5) \o column(7, 5)

\* 16 lines cleared; then rows 4-19 solid except for column 6, rows 0-3 of
\* columns 3-6 free.  An upright I piece in column 6 clears four lines.
deep_shaft_game ==
    four_lines \o four_lines \o four_lines \o four_lines
        \o column(3, 4) \o column(4, 4) \o column(5, 4) \o side_walls

\* 8 lines cleared; then rows 5-7 solid except for column 6, row 4 solid except
\* for columns 5 and 6, and a covered shaft in column 3 below.  One piece can
\* clear one, two or three lines.
covered_shaft_game ==
    four_lines \o four_lines
        \o column(4, 3) \o column(5, 3) \o column(6, 3) \o side_walls
        \o <<placement(l_piece, 2, 0), placement(o_piece, 0, 0), placement(t_piece, 1, -1)>>

Games == {deep_shaft_game, covered_shaft_game}

\* The keys of a frame, handled while the game runs.
RECURSIVE press(_, _, _)
press(game_state_, keys, i) ==
    IF i > Len(keys) \/ ~ game_state_.running
        THEN game_state_
        ELSE press(handle_player_input(game_state_, keys[i], o_piece, o_piece).game_state,
                   keys, i + 1)

\* One frame: its keys, then update_state, which may end the program in the
\* AssertionError of line 256.
frame(game_state_, keys, drawn) ==
    LET pressed == press(game_state_, keys, 1)
    IN  [game_state |-> update_state(pressed, drawn),
         raised     |-> IF update_state_raises(pressed) THEN "AssertionError" ELSE "none"]

\* Frames first .. last of a game, played while the game runs and nothing is
\* raised.  The piece a lock draws is the piece of the next placement but one;
\* active and next are the two pieces drawn last, in play when the game ends.
RECURSIVE play_from(_, _, _, _, _, _)
play_from(played, game, first, last, active, next) ==
    IF first > last \/ ~ played.game_state.running \/ played.raised # "none"
        THEN played
        ELSE play_from(frame(played.game_state, game[first].keys,
                             IF first + 2 <= Len(game) THEN game[first + 2].piece
                             ELSE IF first + 2 = Len(game) + 1 THEN active
                             ELSE next),
                       game, first + 1, last, active, next)

\* The game before the last two frames, which draw no piece but those of the
\* game: it is computed once for each game.
opening ==
    [game \in Games |->
        play_from([game_state |-> create(game[1].piece, game[2].piece), raised |-> "none"],
                  game, 1, Len(game) - 2, o_piece, o_piece)]

\* The game state after the frames of the game, and what was raised.
play(game, active, next) ==
    play_from(opening[game], game, Len(game) - 1, Len(game), active, next)

(***************************************************************************)
(* main(): the frame loop.  A frame handles the KEYDOWN events of its      *)
(* event list one by one (lines 374-379) and ends with the timer test of   *)
(* line 381; the next frame starts with end_cycle_early = False (line 373).*)
(* The QUIT event, which ends the process, and the rendering, which only   *)
(* reads the game state, are left out.                                     *)
(***************************************************************************)
Init ==
    /\ \E game \in Games, active \in choose, next \in choose :
          LET played == play(game, active, next)
          IN  /\ game_state = played.game_state
              /\ raised = played.raised
    /\ end_cycle_early = FALSE
    /\ frame_hard_drop = FALSE
    /\ spawns = 0
    /\ ticks = 0
    /\ input = default_world
    /\ output = [done |-> FALSE]

\* The program runs and the model still follows it.
Followed ==
    /\ raised = "none"
    /\ spawns < MaxSpawns

\* Lines 378-379: a KEYDOWN event of a key other than K_r is handled.
Keydown(key) ==
    /\ Followed
    /\ LET handled == handle_player_input(game_state, key, o_piece, o_piece)
       IN  /\ game_state' = handled.game_state
           /\ end_cycle_early' = handled.end_cycle_early
    /\ frame_hard_drop' = (frame_hard_drop \/ key = "K_SPACE")
    /\ UNCHANGED <<raised, spawns, ticks, input, output>>

\* Lines 378-379: a KEYDOWN event of K_r is handled; reset() draws twice.
KeydownReset ==
    /\ raised = "none"
    /\ \E drawn1 \in choose, drawn2 \in choose :
          LET handled == handle_player_input(game_state, "K_r", drawn1, drawn2)
          IN  /\ game_state' = handled.game_state
              /\ end_cycle_early' = handled.end_cycle_early
    /\ spawns' = IF spawns < MaxSpawns THEN spawns + 1 ELSE spawns
    /\ UNCHANGED <<raised, frame_hard_drop, ticks, input, output>>

\* Lines 381-383 and 373: the frame ends with update_state invoked, the timer
\* having run out or the flag being set.
FrameUpdate ==
    /\ Followed
    /\ IF locks_piece(game_state)
          THEN /\ \E drawn \in choose : game_state' = update_state(game_state, drawn)
               /\ spawns' = spawns + 1
          ELSE /\ game_state' = update_state(game_state, o_piece)
               /\ spawns' = spawns
    /\ raised' = IF update_state_raises(game_state) THEN "AssertionError" ELSE "none"
    /\ end_cycle_early' = FALSE
    /\ frame_hard_drop' = FALSE
    /\ UNCHANGED <<ticks, input, output>>

\* Lines 381 and 373: the frame ends without update_state: the timer has not
\* run out and the flag is not set.
FrameSkip ==
    /\ Followed
    /\ ~ end_cycle_early
    /\ end_cycle_early' = FALSE
    /\ frame_hard_drop' = FALSE
    /\ UNCHANGED <<game_state, raised, spawns, ticks, input, output>>

Next ==
    \/ \E key \in Keys \ {"K_r"} : Keydown(key)
    \/ KeydownReset
    \/ FrameUpdate
    \/ FrameSkip

Spec == Init /\ [][Next]_vars

(***************************************************************************)
(* SpecClean: World.clean_full_lines called on every world of up to        *)
(* MaxCleanWidth x MaxCleanHeight cells.  A solid cell has the colour its  *)
(* position gives it, so that a moved or mixed-up cell shows.              *)
(***************************************************************************)
piece_colors ==
    <<o_piece.color, l_piece.color, rl_piece.color, i_piece.color, t_piece.color,
      s_piece.color, z_piece.color>>

color_at(pos) == piece_colors[1 + ((pos.x + 3 * pos.y) % 7)]

\* The world of that size whose solid cells are those of the set.
world_with(width, height, solid) ==
    [new_world(width, height) EXCEPT
        !.grid = [pos \in DOMAIN @ |->
                    IF pos \in solid THEN Cell(color_at(pos), TRUE) ELSE BACKGROUND_CELL]]

\* Every world of up to MaxCleanWidth x MaxCleanHeight cells, with every set
\* of solid cells.
InitClean ==
    /\ \E width \in 1 .. MaxCleanWidth, height \in 1 .. MaxCleanHeight :
          \E solid \in SUBSET {Position(x, y) : x \in range(width), y \in range(height)} :
              input = world_with(width, height, solid)
    /\ output = [done |-> FALSE]
    /\ game_state = create(o_piece, o_piece)
    /\ end_cycle_early = FALSE
    /\ raised = "none"
    /\ frame_hard_drop = FALSE
    /\ spawns = 0
    /\ ticks = 0

CallClean ==
    /\ ~ output.done
    /\ output' = [done       |-> TRUE,
                  world      |-> clean_full_lines(input).world,
                  line_count |-> clean_full_lines(input).line_count]
    /\ UNCHANGED <<game_state, end_cycle_early, raised, frame_hard_drop, spawns, ticks, input>>

NextClean == CallClean

SpecClean == InitClean /\ [][NextClean]_vars

(***************************************************************************)
(* World.stamp as a function: SpecStamp calls it on small worlds with      *)
(* every set of solid cells, with every list of up to MaxStampLen          *)
(* positions, in the world and one step outside it, and then once more on  *)
(* the world it left, with the same positions and any colour.              *)
(***************************************************************************)
MaxStampLen == 2

\* The sizes of the worlds stamp is called on.
StampSizes == {<<1, 1>>, <<2, 1>>, <<1, 2>>, <<2, 2>>}

StampColors == {l_piece.color, i_piece.color}

\* The lists of up to n elements of the set.
lists(set, n) == UNION {[1 .. len -> set] : len \in 0 .. n}

InitStamp ==
    /\ \E size \in StampSizes :
          \E solid \in SUBSET {Position(x, y) : x \in range(size[1]), y \in range(size[2])},
             positions \in lists({Position(x, y) : x \in -1 .. size[1], y \in -1 .. size[2]},
                                 MaxStampLen) :
              input = [world     |-> world_with(size[1], size[2], solid),
                       color     |-> l_piece.color,
                       positions |-> positions]
    /\ output = [done |-> FALSE, again |-> FALSE]
    /\ game_state = create(o_piece, o_piece)
    /\ end_cycle_early = FALSE
    /\ raised = "none"
    /\ frame_hard_drop = FALSE
    /\ spawns = 0
    /\ ticks = 0

CallStamp ==
    /\ ~ output.done
    /\ output' = [done  |-> TRUE,
                  again |-> FALSE,
                  world |-> stamp(input.world, input.color, input.positions)]
    /\ UNCHANGED <<game_state, end_cycle_early, raised, frame_hard_drop, spawns, ticks, input>>

CallStampAgain ==
    /\ output.done
    /\ ~ output.again
    /\ \E color \in StampColors :
          output' = [done        |-> TRUE,
                     again       |-> TRUE,
                     world       |-> output.world,
                     color_again |-> color,
                     world_again |-> stamp(output.world, color, input.positions)]
    /\ UNCHANGED <<game_state, end_cycle_early, raised, frame_hard_drop, spawns, ticks, input>>

NextStamp ==
    \/ CallStamp
    \/ CallStampAgain

SpecStamp == InitStamp /\ [][NextStamp]_vars

(***************************************************************************)
(* The rotations of Tetrimino as functions: SpecRotate turns and moves     *)
(* each piece of the catalog, with no world in the way, so that input is   *)
(* the piece in every orientation, at the pivots up to MaxRotateShift      *)
(* steps from the spawn pivot.                                             *)
(***************************************************************************)
MaxRotateShift == 2

InitRotate ==
    /\ input \in choose
    /\ output = [done |-> FALSE]
    /\ game_state = create(o_piece, o_piece)
    /\ end_cycle_early = FALSE
    /\ raised = "none"
    /\ frame_hard_drop = FALSE
    /\ spawns = 0
    /\ ticks = 0

CallRotateLeft ==
    /\ input' = rotate_left(input)
    /\ UNCHANGED <<game_state, end_cycle_early, raised, frame_hard_drop, spawns, ticks, output>>

CallRotateRight ==
    /\ input' = rotate_right(input)
    /\ UNCHANGED <<game_state, end_cycle_early, raised, frame_hard_drop, spawns, ticks, output>>

CallMoveOffset ==
    /\ \E k \in DOMAIN MOVE_OFFSETS :
          LET moved == move_offset(input, MOVE_OFFSETS[k])
          IN  /\ moved.center_pos.x \in 4 - MaxRotateShift .. 4 + MaxRotateShift
              /\ moved.center_pos.y \in 2 .. 2 + MaxRotateShift
              /\ input' = moved
    /\ UNCHANGED <<game_state, end_cycle_early, raised, frame_hard_drop, spawns, ticks, output>>

NextRotate ==
    \/ CallRotateLeft
    \/ CallRotateRight
    \/ CallMoveOffset

SpecRotate == InitRotate /\ [][NextRotate]_vars

(***************************************************************************)
(* The two while loops of the program, an iteration a step: the scan of    *)
(* clean_full_lines (lines 67-83) and the hard drop of handle_player_input *)
(* (lines 278-279).  output holds the variables of the loop.  SpecLoops    *)
(* runs both on every world of a width of LoopWidths and up to             *)
(* MaxLoopHeight rows, the hard drop with each piece of the catalog, as it *)
(* is and turned, at the pivots of the two top rows.  A loop that has not  *)
(* ended takes its next iteration: weak fairness of the steps.             *)
(***************************************************************************)
MaxLoopHeight == 4

LoopWidths == {1, 2}

\* Fault variant of scan_step: y -= 1 is in the branch of the full row, and a
\* row that is not full leaves y as it is.
scan_step_misplaced_decrement(self, y, line_count) ==
    IF row_full(self, y)
        THEN [self       |-> [self EXCEPT !.grid = collapse_from(@, self.width, y)],
              y          |-> y - 1,
              line_count |-> line_count + 1]
        ELSE [self |-> self, y |-> y, line_count |-> line_count]

\* Lines 68-83: one iteration of while y >= 0.
scan_step(self, y, line_count) ==
    IF row_full(self, y)
        THEN [self       |-> [self EXCEPT !.grid = collapse_from(@, self.width, y)],
              y          |-> y,
              line_count |-> line_count + 1]
        ELSE [self |-> self, y |-> y - 1, line_count |-> line_count]

InitLoops ==
    /\ \/ \E width \in LoopWidths, height \in 1 .. MaxLoopHeight :
            \E solid \in SUBSET {Position(x, y) : x \in range(width), y \in range(height)} :
                output = [done       |-> FALSE,
                          loop       |-> "clean_full_lines",
                          self       |-> world_with(width, height, solid),
                          y          |-> height - 1,
                          line_count |-> 0]
       \/ \E width \in LoopWidths, height \in 1 .. MaxLoopHeight :
            \E solid \in SUBSET {Position(x, y) : x \in range(width), y \in range(height)},
               piece \in choose \cup {rotate_right(chosen) : chosen \in choose},
               x \in range(width), y \in 0 .. 1 :
                output = [done          |-> FALSE,
                          loop          |-> "hard_drop",
                          world         |-> world_with(width, height, solid),
                          new_tetrimino |-> [piece EXCEPT !.center_pos = Position(x, y)]]
    /\ input = default_world
    /\ game_state = create(o_piece, o_piece)
    /\ end_cycle_early = FALSE
    /\ raised = "none"
    /\ frame_hard_drop = FALSE
    /\ spawns = 0
    /\ ticks = 0

\* Line 67 and lines 68-83: the test of the while loop and one iteration.
ScanStep ==
    /\ ~ output.done
    /\ output.loop = "clean_full_lines"
    /\ output' = IF output.y >= 0
                     THEN LET step == scan_step(output.self, output.y, output.line_count)
                          IN  [output EXCEPT !.self       = step.self,
                                             !.y          = step.y,
                                             !.line_count = step.line_count]
                     ELSE [output EXCEPT !.done = TRUE]
    /\ UNCHANGED <<game_state, end_cycle_early, raised, frame_hard_drop, spawns, ticks, input>>

\* Lines 278-279: the test of the while loop and one iteration.
DropStep ==
    /\ ~ output.done
    /\ output.loop = "hard_drop"
    /\ output' = IF is_legal_in(move_offset(output.new_tetrimino, MOVE_OFFSETS["DOWN"]),
                                output.world)
                     THEN [output EXCEPT
                              !.new_tetrimino = move_offset(@, MOVE_OFFSETS["DOWN"])]
                     ELSE [output EXCEPT !.done = TRUE]
    /\ UNCHANGED <<game_state, end_cycle_early, raised, frame_hard_drop, spawns, ticks, input>>

NextLoops ==
    \/ ScanStep
    \/ DropStep

SpecLoops == InitLoops /\ [][NextLoops]_vars /\ WF_vars(ScanStep) /\ WF_vars(DropStep)

(***************************************************************************)
(* main() with no key pressed: SpecTicks starts where one of the games has *)
(* been played and the keys of a last frame have turned the active piece   *)
(* up to MaxTickTurns times and shifted it up to MaxTickShift columns;     *)
(* from then on every frame the timer runs out and update_state is         *)
(* invoked, with every piece the supply can draw.  ticks counts the calls  *)
(* on a running game; the model follows a game for TickLimit of them and   *)
(* one more.                                                               *)
(***************************************************************************)
MaxTickTurns == 1

MaxTickShift == 3

TickLimit == 80

\* The keys of a frame that turns and shifts the piece and does not drop it.
turn_keys(rotations, shift) == SubSeq(drop_keys(rotations, shift), 1, Len(drop_keys(rotations, shift)) - 1)

InitTicks ==
    /\ \E game \in Games, active \in choose, next \in choose :
          \E rotations \in 0 .. MaxTickTurns, shift \in -MaxTickShift .. MaxTickShift :
              LET played == play(game, active, next)
              IN  /\ game_state = press(played.game_state, turn_keys(rotations, shift), 1)
                  /\ raised = played.raised
    /\ end_cycle_early = FALSE
    /\ frame_hard_drop = FALSE
    /\ spawns = 0
    /\ ticks = 0
    /\ input = default_world
    /\ output = [done |-> FALSE]

\* Lines 381-383: the timer has run out and update_state is invoked.
Tick ==
    /\ raised = "none"
    /\ ticks <= TickLimit
    /\ ticks' = IF game_state.running THEN ticks + 1 ELSE ticks
    /\ IF locks_piece(game_state)
          THEN \E drawn \in choose : game_state' = update_state(game_state, drawn)
          ELSE game_state' = update_state(game_state, o_piece)
    /\ raised' = IF update_state_raises(game_state) THEN "AssertionError" ELSE "none"
    /\ UNCHANGED <<end_cycle_early, frame_hard_drop, spawns, input, output>>

NextTicks == Tick

SpecTicks == InitTicks /\ [][NextTicks]_vars

(***************************************************************************)
(* Reference definitions the claims are stated with.                       *)
(***************************************************************************)
\* The positions of a piece's blocks.
block_set(tetrimino) ==
    {translate(tetrimino.center_pos, tetrimino.block_offsets[i]) :
        i \in DOMAIN tetrimino.block_offsets}

\* The piece with its centre moved by (dx, dy) and nothing else changed.
shifted(tetrimino, dx, dy) ==
    [tetrimino EXCEPT !.center_pos = Position(@.x + dx, @.y + dy)]

\* Every block of the piece is inside the grid and on a non-solid cell.
all_blocks_free(tetrimino, world) ==
    \A pos \in block_set(tetrimino) :
        /\ pos.x \in range(world.width)
        /\ pos.y \in range(world.height)
        /\ ~ world.grid[pos].solid

\* The rows of the world whose cells are all solid.
full_rows(world) ==
    {y \in range(world.height) : \A x \in range(world.width) : world.grid[Position(x, y)].solid}

\* The reference collapse: the rows that are not full keep their order and
\* their cells and sink to the bottom; the rows above them are background.
collapsed(world) ==
    LET full  == full_rows(world)
        kept  == SelectSeq([i \in 1 .. world.height |-> i - 1], LAMBDA y : y \notin full)
        empty == world.height - Len(kept)
    IN  [world EXCEPT
            !.grid = [pos \in DOMAIN @ |->
                        IF pos.y < empty
                            THEN BACKGROUND_CELL
                            ELSE world.grid[Position(pos.x, kept[pos.y - empty + 1])]]]

\* The world with the piece's colour, solid, at the piece's blocks.
stamped(world, tetrimino) ==
    [world EXCEPT
        !.grid = [pos \in DOMAIN @ |->
                    IF pos \in block_set(tetrimino)
                        THEN Cell(tetrimino.color, TRUE)
                        ELSE world.grid[pos]]]

\* The scoring table.
score_table(n) ==
    CASE n = 0 -> 0
      [] n = 1 -> 100
      [] n = 2 -> 200
      [] n = 3 -> 400
      [] n = 4 -> 800

\* The number of rows a hard drop moves the piece: the largest k such that
\* the piece moved down by each of 1 .. k rows is free in the world.
drop_distance(tetrimino, world) ==
    CHOOSE k \in 0 .. world.height :
        /\ \A j \in 1 .. k : all_blocks_free(shifted(tetrimino, 0, j), world)
        /\ ~ all_blocks_free(shifted(tetrimino, 0, k + 1), world)

(***************************************************************************)
(* The claims.                                                             *)
(***************************************************************************)
\* C1: in every running state whose piece cannot move down, a call of
\* update_state stamps the grid with the piece's colour at its blocks, clears
\* the n full lines, adds n to lines_cleared, sets level to 1 + lines_cleared
\* div 10, adds 0/100/200/400/800 to score for n = 0..4, makes the buffered
\* piece the active one, and leaves running true exactly when that piece is
\* free in the grid; it does not raise.
C1_LockBranch ==
    ( /\ game_state.running
      /\ ~ all_blocks_free(shifted(game_state.tetrimino, 0, 1), game_state.world) )
    => LET world_stamped == stamped(game_state.world, game_state.tetrimino)
           n             == Cardinality(full_rows(world_stamped))
           world_cleared == collapsed(world_stamped)
       IN  /\ n \in 0 .. 4
           /\ ~ update_state_raises(game_state)
           /\ \A drawn \in choose :
                LET after == update_state(game_state, drawn)
                IN  /\ after.world = world_cleared
                    /\ after.lines_cleared = game_state.lines_cleared + n
                    /\ after.level = 1 + (after.lines_cleared \div 10)
                    /\ after.score = game_state.score + score_table(n)
                    /\ after.tetrimino = game_state.t_factory.next_tetrimino
                    /\ after.running = all_blocks_free(after.tetrimino, after.world)

\* C1 witness: a lock has cleared four lines (16 lines and 3200 points before).
C1_Witness ==
    /\ spawns = 1
    /\ game_state.lines_cleared = 20
    /\ game_state.score = 4000
    /\ game_state.level = 3
    /\ game_state.running

\* C2: in every running state whose piece can move down, a call of
\* update_state moves the piece's centre down by one row, changes nothing else
\* of the game state and does not raise.
C2_FallBranch ==
    ( /\ game_state.running
      /\ all_blocks_free(shifted(game_state.tetrimino, 0, 1), game_state.world) )
    => /\ ~ update_state_raises(game_state)
       /\ \A drawn \in choose :
            update_state(game_state, drawn)
                = [game_state EXCEPT !.tetrimino.center_pos.y = @ + 1]

\* C2 witness: a running game whose piece is below its spawn row and can fall on.
C2_Witness ==
    /\ game_state.running
    /\ spawns = 0
    /\ ticks = 0
    /\ game_state.tetrimino.center_pos.y > 2
    /\ all_blocks_free(shifted(game_state.tetrimino, 0, 1), game_state.world)

\* C3: once the game is over a call of update_state changes nothing of the game
\* state, and running becomes true again only by a reset.
C3_GameOverTerminal ==
    /\ [](~ game_state.running
            => /\ ~ update_state_raises(game_state)
               /\ \A drawn \in choose : update_state(game_state, drawn) = game_state)
    /\ [][(~ game_state.running /\ game_state'.running) => KeydownReset]_vars

\* C3 witness: a lock has ended the game (the new piece overlaps the stack).
C3_Witness ==
    /\ ~ game_state.running
    /\ spawns = 1
    /\ game_state.lines_cleared > 0
    /\ ~ all_blocks_free(game_state.tetrimino, game_state.world)

\* C4: after reset, in any state, score = 0, level = 1, lines_cleared = 0,
\* running = true, the grid has its former size and only background cells, the
\* active piece is a catalog piece at its spawn place, free in the grid, and
\* the supply holds a catalog piece.
C4_Reset ==
    LET background == [pos \in {Position(x, y) : x \in range(game_state.world.width),
                                                 y \in range(game_state.world.height)}
                        |-> BACKGROUND_CELL]
    IN  \A drawn1 \in choose, drawn2 \in choose :
            LET after == handle_player_input(game_state, "K_r", drawn1, drawn2).game_state
            IN  /\ after.score = 0
                /\ after.level = 1
                /\ after.lines_cleared = 0
                /\ after.running
                /\ after.world.width = game_state.world.width
                /\ after.world.height = game_state.world.height
                /\ after.world.grid = background
                /\ after.tetrimino \in choose
                /\ all_blocks_free(after.tetrimino, after.world)
                /\ after.t_factory.next_tetrimino \in choose

\* C4 witness: a reset has acted (every initial state has lines cleared).
C4_Witness ==
    /\ spawns = 1
    /\ game_state.lines_cleared = 0
    /\ game_state.score = 0

\* C5: clean_full_lines returns the number of rows that were full and leaves
\* the reference collapse of the world: the same keys, width and height, the
\* rows that were not full in their order at the bottom, background above.
C5_CleanIsCollapse ==
    output.done
        => /\ output.line_count = Cardinality(full_rows(input))
           /\ output.world = collapsed(input)
           /\ (full_rows(input) = {} => output.world = input)

\* C5 witness: the call is done on a world with two full rows that are not
\* adjacent and a row between them that is not empty.
C5_Witness ==
    /\ output.done
    /\ input.height = 4
    /\ full_rows(input) = {1, 3}
    /\ \E x \in range(input.width) : input.grid[Position(x, 2)].solid

\* C6: the assertion of calculate_score_increase never fails: the program has
\* not ended in an exception, and the count a lock would pass lies in 0..4.
C6_AssertionHolds ==
    /\ raised = "none"
    /\ ( ( /\ game_state.running
           /\ ~ all_blocks_free(shifted(game_state.tetrimino, 0, 1), game_state.world) )
         => clean_full_lines(stamp(game_state.world, game_state.tetrimino.color,
                                   blocks(game_state.tetrimino))).line_count \in 0 .. 4 )

\* C6 witness: a piece about to lock that completes four rows.
C6_Witness ==
    /\ game_state.running
    /\ ~ all_blocks_free(shifted(game_state.tetrimino, 0, 1), game_state.world)
    /\ Cardinality(full_rows(stamped(game_state.world, game_state.tetrimino))) = 4

\* C7: level = 1 + lines_cleared div 10 in every state, and lines_cleared
\* decreases only by a reset.
C7_LevelInvariant ==
    /\ [](game_state.level = 1 + (game_state.lines_cleared \div 10))
    /\ [][game_state'.lines_cleared >= game_state.lines_cleared \/ KeydownReset]_vars

\* C7 witness: a lock has taken lines_cleared from 8 to 10 and the level to 2.
C7_Witness ==
    /\ spawns = 1
    /\ game_state.lines_cleared = 10
    /\ game_state.level = 2

\* The piece a key proposes: moved by the unit offset, or with every offset
\* (x, y) turned right to (y, -x) unless the piece does not rotate.
proposed(tetrimino, key) ==
    CASE key = "K_LEFT"  -> shifted(tetrimino, -1, 0)
      [] key = "K_RIGHT" -> shifted(tetrimino, 1, 0)
      [] key = "K_DOWN"  -> shifted(tetrimino, 0, 1)
      [] key = "K_UP"    ->
            IF tetrimino.rotation_strategy = "NO_ROTATION"
                THEN tetrimino
                ELSE [tetrimino EXCEPT
                        !.block_offsets = [i \in DOMAIN @ |-> Position(@[i].y, 0 - @[i].x)]]

\* C8: in every state a left, right, soft-drop or rotate key makes the
\* proposed piece the active one if all its blocks are free, and changes
\* nothing of the game state if not; grid, counters, running and supply are
\* unchanged either way, and the flag returned is false.
C8_GatedInput ==
    \A key \in {"K_LEFT", "K_RIGHT", "K_DOWN", "K_UP"} :
        LET handled == handle_player_input(game_state, key, o_piece, o_piece)
        IN  /\ handled.game_state =
                    IF all_blocks_free(proposed(game_state.tetrimino, key), game_state.world)
                        THEN [game_state EXCEPT !.tetrimino = proposed(game_state.tetrimino, key)]
                        ELSE game_state
            /\ ~ handled.end_cycle_early

\* C8 witness: a piece that keys have moved sideways and that can go no
\* further to the left nor down.
C8_Witness ==
    /\ game_state.running
    /\ spawns = 0
    /\ ticks = 0
    /\ game_state.tetrimino.center_pos.x < 4
    /\ ~ all_blocks_free(shifted(game_state.tetrimino, -1, 0), game_state.world)
    /\ ~ all_blocks_free(shifted(game_state.tetrimino, 0, 1), game_state.world)

\* C9: in every running state a hard-drop key moves the piece down by the drop
\* distance, changes nothing else of the game state and returns true; the
\* piece then cannot move down, and the next update_state stamps it there.
C9_HardDrop ==
    game_state.running
    => LET handled == handle_player_input(game_state, "K_SPACE", o_piece, o_piece)
           dropped == handled.game_state
       IN  /\ dropped = [game_state EXCEPT !.tetrimino.center_pos.y =
                            @ + drop_distance(game_state.tetrimino, game_state.world)]
           /\ handled.end_cycle_early
           /\ ~ all_blocks_free(shifted(dropped.tetrimino, 0, 1), dropped.world)
           /\ \A drawn \in choose :
                LET after == update_state(dropped, drawn)
                IN  /\ after.world = collapsed(stamped(dropped.world, dropped.tetrimino))
                    /\ after.tetrimino = dropped.t_factory.next_tetrimino

\* C9 witness: a hard drop has taken the piece down the shaft to the floor.
C9_Witness ==
    /\ game_state.running
    /\ end_cycle_early
    /\ frame_hard_drop
    /\ game_state.tetrimino.center_pos.y > 10
    /\ \E pos \in block_set(game_state.tetrimino) : pos.y = game_state.world.height - 1

\* C10: a frame in which a hard-drop key was handled never ends without
\* update_state being invoked.
C10_FastForwardHonoured ==
    [][frame_hard_drop => ~ FrameSkip]_vars


\* The positions inside the world.
in_bounds(world) == {Position(x, y) : x \in range(world.width), y \in range(world.height)}

\* C11: stamp makes every listed position that is in bounds and not solid a
\* solid cell of the colour, leaves every other cell as it was (solid cells
\* keep their colour), adds no key to the grid for a position out of bounds,
\* keeps width and height, and a second stamp of the same positions with any
\* colour leaves the grid as the first left it.
C11_Stamp ==
    output.done
        => LET before == input.world
               after  == output.world
               listed == {input.positions[i] : i \in DOMAIN input.positions}
           IN  /\ DOMAIN after.grid = in_bounds(before)
               /\ after.width = before.width
               /\ after.height = before.height
               /\ \A pos \in in_bounds(before) :
                    after.grid[pos] =
                        IF pos \in listed /\ ~ before.grid[pos].solid
                            THEN Cell(input.color, TRUE)
                            ELSE before.grid[pos]
               /\ (output.again => output.world_again = after)

\* C11 witness: a second stamp in another colour is done, of a list with a
\* position out of bounds, a solid one and a free one.
C11_Witness ==
    /\ output.again
    /\ output.color_again # input.color
    /\ \E i \in DOMAIN input.positions : input.positions[i] \notin in_bounds(input.world)
    /\ \E pos \in in_bounds(input.world) :
          /\ input.world.grid[pos].solid
          /\ output.world.grid[pos].color # input.color
    /\ \E pos \in in_bounds(input.world) :
          /\ ~ input.world.grid[pos].solid
          /\ output.world.grid[pos] = Cell(input.color, TRUE)


\* C12: in every state the keys of the grid are exactly the positions of
\* [0, width) x [0, height), width and height are those of World(), and
\* pos_is_free is true of a position exactly when it is one of them and its
\* cell is not solid, so false of every position out of bounds (those up to
\* two steps outside are tried).
C12_GridTotal ==
    LET world == game_state.world
        cells == in_bounds(world)
    IN  /\ world.width = DEFAULT_WIDTH
        /\ world.height = DEFAULT_HEIGHT
        /\ DOMAIN world.grid = cells
        /\ Cardinality(DOMAIN world.grid) = world.width * world.height
        /\ \A x \in -2 .. world.width + 1, y \in -2 .. world.height + 1 :
              pos_is_free(world, Position(x, y))
                  <=> /\ Position(x, y) \in cells
                      /\ ~ world.grid[Position(x, y)].solid

\* C12 witness: a lock has stamped a piece and cleared one line.
C12_Witness ==
    /\ spawns = 1
    /\ game_state.lines_cleared = 9
    /\ game_state.score = 1700


\* C13: in every state the supply holds one piece of the catalog; a locking
\* update_state makes the piece that was buffered the active one, as the
\* catalog has it (spawn pivot, not rotated), and the buffer it leaves is the
\* piece _choose() draws, which can be each of the seven pieces whatever the
\* active and the buffered piece are.
C13_SupplyOrder ==
    /\ game_state.t_factory.next_tetrimino \in choose
    /\ Cardinality(choose) = 7
    /\ ( ( /\ raised = "none"
           /\ game_state.running
           /\ ~ all_blocks_free(shifted(game_state.tetrimino, 0, 1), game_state.world) )
         => \A drawn \in choose :
                LET after == update_state(game_state, drawn)
                IN  /\ after.tetrimino = game_state.t_factory.next_tetrimino
                    /\ after.tetrimino \in choose
                    /\ after.t_factory.next_tetrimino = drawn )

\* C13 witness: a lock has made the buffered piece active and drawn the same
\* piece again.
C13_Witness ==
    /\ spawns = 1
    /\ game_state.lines_cleared > 0
    /\ game_state.running
    /\ game_state.tetrimino = game_state.t_factory.next_tetrimino


\* The set of a piece's offsets.
offset_set(tetrimino) == {tetrimino.block_offsets[i] : i \in DOMAIN tetrimino.block_offsets}

\* C14: for every piece of the catalog in every orientation, rotate_left then
\* rotate_right, and rotate_right then rotate_left, give back the offsets,
\* four rotate_right give back the offsets, a rotation keeps pivot, colour,
\* strategy and the number of offsets, and a NO_ROTATION piece keeps its
\* offsets under both rotations.
C14_RotationAlgebra ==
    LET left  == rotate_left(input)
        right == rotate_right(input)
    IN  /\ offset_set(rotate_right(left)) = offset_set(input)
        /\ offset_set(rotate_left(right)) = offset_set(input)
        /\ offset_set(rotate_right(rotate_right(rotate_right(right)))) = offset_set(input)
        /\ \A turned \in {left, right} :
              /\ turned.center_pos = input.center_pos
              /\ turned.color = input.color
              /\ turned.rotation_strategy = input.rotation_strategy
              /\ Len(turned.block_offsets) = Len(input.block_offsets)
              /\ Cardinality(offset_set(turned)) = Cardinality(offset_set(input))
        /\ ( input.rotation_strategy = "NO_ROTATION"
             => /\ left.block_offsets = input.block_offsets
                /\ right.block_offsets = input.block_offsets )

\* C14 witness: the T piece, turned and moved away from its spawn pivot.
C14_Witness ==
    /\ input.color = t_piece.color
    /\ offset_set(input) # offset_set(t_piece)
    /\ offset_set(rotate_right(input)) = offset_set(t_piece)
    /\ input.center_pos = Position(4 + MaxRotateShift, 2 + MaxRotateShift)


\* C15: the scan loop of clean_full_lines ends for every grid content, a grid
\* of full rows included, and the hard-drop loop ends for every grid and
\* piece: each loop, taking its iterations, comes to its end.
C15_LoopsTerminate == <>(output.done)

\* C15 witness: the scan has ended on a grid all of whose rows were full.
C15_Witness ==
    /\ output.done
    /\ output.loop = "clean_full_lines"
    /\ output.line_count = MaxLoopHeight
    /\ output.self.width = 2


\* The solid cells of a world.
solid_cells(world) == {pos \in DOMAIN world.grid : world.grid[pos].solid}

\* C16: in every state with running true every block of the active piece is
\* inside the grid and on a cell that is not solid, and the blocks are four
\* different positions; so the stamp of a lock makes four more cells solid,
\* those of the piece, in its colour.
C16_ActivePieceLegal ==
    game_state.running
    => /\ \A pos \in block_set(game_state.tetrimino) :
             /\ pos \in in_bounds(game_state.world)
             /\ ~ game_state.world.grid[pos].solid
       /\ Cardinality(block_set(game_state.tetrimino)) = 4
       /\ Len(game_state.tetrimino.block_offsets) = 4
       /\ LET world_stamped == stamp(game_state.world, game_state.tetrimino.color,
                                     blocks(game_state.tetrimino))
          IN  /\ solid_cells(world_stamped) \ solid_cells(game_state.world)
                    = block_set(game_state.tetrimino)
              /\ \A pos \in block_set(game_state.tetrimino) :
                    world_stamped.grid[pos] = Cell(game_state.tetrimino.color, TRUE)

\* C16 witness: a turned piece that lies against the stack, with nowhere to go
\* to the right nor down.
C16_Witness ==
    /\ game_state.running
    /\ game_state.tetrimino.block_offsets \notin {piece.block_offsets : piece \in choose}
    /\ game_state.tetrimino.center_pos.y > 4
    /\ ~ all_blocks_free(shifted(game_state.tetrimino, 1, 0), game_state.world)
    /\ ~ all_blocks_free(shifted(game_state.tetrimino, 0, 1), game_state.world)


\* C17: in every state between two operations (after create, update_state,
\* handle_player_input, reset) no row of the grid has all its cells solid.
C17_NoFullRow ==
    \A y \in range(game_state.world.height) :
        \E x \in range(game_state.world.width) :
            ~ game_state.world.grid[Position(x, y)].solid

\* C17 witness: a lock has cleared three lines and left a stack behind.
C17_Witness ==
    /\ spawns = 1
    /\ game_state.lines_cleared = 11
    /\ \E pos \in DOMAIN game_state.world.grid : game_state.world.grid[pos].solid


\* C18: a locking update_state in a running state that clears n rows leaves
\* 4 - width * n more solid cells than there were, and with n = 0 every solid
\* cell stays solid; every other update_state and every key but the reset key
\* leave the solid cells as they are.
C18_SolidCells ==
    LET world == game_state.world
        solid == solid_cells(world)
    IN  /\ \A key \in Keys \ {"K_r"} :
              solid_cells(handle_player_input(game_state, key, o_piece, o_piece).game_state.world)
                  = solid
        /\ \A drawn \in choose :
              LET after == solid_cells(update_state(game_state, drawn).world)
              IN  IF game_state.running
                        /\ ~ all_blocks_free(shifted(game_state.tetrimino, 0, 1), world)
                      THEN LET n == Cardinality(full_rows(stamped(world, game_state.tetrimino)))
                           IN  /\ Cardinality(after) = Cardinality(solid) + 4 - world.width * n
                               /\ (n = 0 => solid \subseteq after)
                      ELSE after = solid

\* C18 witness: a lock has cleared four lines: of the 168 solid cells and the
\* four of the piece 132 are left.
C18_Witness ==
    /\ spawns = 1
    /\ game_state.lines_cleared = 20
    /\ Cardinality(solid_cells(game_state.world)) = 132


\* C19 as claimed: while running is false a left, right, soft-drop, hard-drop
\* or rotate key leaves the whole game state unchanged, the active piece
\* included.
C19_InputFrozen ==
    ~ game_state.running
    => \A key \in ProposalKeys :
          handle_player_input(game_state, key, o_piece, o_piece).game_state = game_state

\* C19 as amended: while running is false a left, right, soft-drop, hard-drop
\* or rotate key changes nothing of the game state but the active piece, which
\* becomes the proposed piece if all its blocks are free (for the hard drop:
\* the piece moved down by the drop distance) and stays as it is if not; the
\* grid, the counters, the supply and running, which stays false, are as they
\* were, and the music key changes nothing.
C19_InputAfterGameOver ==
    ~ game_state.running
    => /\ \A key \in {"K_LEFT", "K_RIGHT", "K_DOWN", "K_UP"} :
             handle_player_input(game_state, key, o_piece, o_piece).game_state =
                 IF all_blocks_free(proposed(game_state.tetrimino, key), game_state.world)
                     THEN [game_state EXCEPT !.tetrimino = proposed(game_state.tetrimino, key)]
                     ELSE game_state
       /\ handle_player_input(game_state, "K_SPACE", o_piece, o_piece).game_state =
              [game_state EXCEPT !.tetrimino.center_pos.y =
                  @ + drop_distance(game_state.tetrimino, game_state.world)]
       /\ handle_player_input(game_state, "K_s", o_piece, o_piece).game_state = game_state
       /\ \A key \in Keys \ {"K_r"} :
             ~ handle_player_input(game_state, key, o_piece, o_piece).game_state.running

\* C19 witness: the game is over and a key has taken the piece, which
\* overlapped the stack when the game ended, to a free place.
C19_Witness ==
    /\ ~ game_state.running
    /\ all_blocks_free(game_state.tetrimino, game_state.world)


\* C20: from a running state the game reaches, with ticks only from then on,
\* running becomes false after finitely many ticks, at most TickLimit of them,
\* whatever pieces the supply draws: no game that has had more ticks is still
\* running, and no tick ends the program while the game runs.
C20_GameOverInevitable ==
    game_state.running
    => /\ ticks <= TickLimit
       /\ raised = "none"

\* C20 witness: ticks alone have cleared lines (the piece was over the shaft)
\* and gone on until the game was over.
C20_Witness ==
    /\ ~ game_state.running
    /\ game_state.lines_cleared = 20
    /\ ticks > 20

====
